---- MODULE Spec2Model ----
(***************************************************************************)
(* Model of MongoDBManager (src/Mongodb_manager.py): the class-level       *)
(* singleton MongoClient, its initialize/close lifecycle, the name and     *)
(* connection-string validators, accessor construction and the CRUD        *)
(* pass-through operations.  The pymongo driver and the server behind it   *)
(* are the environment: their outcomes are nondeterministic inputs of the  *)
(* actions.                                                                *)
(***************************************************************************)
EXTENDS Integers, Sequences, FiniteSets, TLC

\* ------------------------------------------------------------------ bounds
\* MongoClient objects ever constructed in one behaviour.
MaxSessions == 2
\* MongoDBManager instances alive in one behaviour.
MaxAccessors == 1
\* Documents are identified by their _id, 1..MaxDocId.
MaxDocId == 1
\* Length of the freely chosen part of a name handed to _validate_name.
MaxBody == 2

\* ------------------------------------------------------- program constants
\* `len(name) > 64`
MaxNameLen == 64
\* `_client = None`
NoClient == 0

\* ------------------------------------------------------------ Python values
\* A Python value as far as the validators look at it: its type, its
\* characters when it is a str, and its truth value.
Str(s) == [type |-> "str", chars |-> s, truthy |-> s # <<>>]
PyNone == [type |-> "NoneType", chars |-> <<>>, truthy |-> FALSE]
PyInt(n) == [type |-> "int", chars |-> <<>>, truthy |-> n # 0]

\* str.strip() with no argument removes leading and trailing whitespace.
Whitespace == {" ", "\t", "\n"}

RECURSIVE LStrip(_)
LStrip(s) == IF s # <<>> /\ Head(s) \in Whitespace THEN LStrip(Tail(s)) ELSE s

RECURSIVE RStrip(_)
RStrip(s) ==
    IF s # <<>> /\ s[Len(s)] \in Whitespace
    THEN RStrip(SubSeq(s, 1, Len(s) - 1))
    ELSE s

Strip(s) == RStrip(LStrip(s))

\* str.startswith(p)
StartsWith(s, p) == Len(s) >= Len(p) /\ SubSeq(s, 1, Len(p)) = p

\* `sub in s` for strings
Contains(sub, s) ==
    \E i \in 1..(Len(s) - Len(sub) + 1) : SubSeq(s, i, i + Len(sub) - 1) = sub

Repeat(c, n) == [i \in 1..n |-> c]

MongoPrefix == <<"m", "o", "n", "g", "o", "d", "b", ":", "/", "/">>
MongoSrvPrefix == <<"m", "o", "n", "g", "o", "d", "b", "+", "s", "r", "v", ":", "/", "/">>

\* ------------------------------------------------------------- validators
\* _validate_connection_string: "ok", or the exception raised.
_validate_connection_string_noprefix(connection_string) ==
    IF connection_string.type # "str" THEN "TypeError"
    ELSE IF Strip(connection_string.chars) = <<>> THEN "ValueError"
    ELSE "ok"

_validate_connection_string(connection_string) ==
    IF connection_string.type # "str" THEN "TypeError"
    ELSE IF Strip(connection_string.chars) = <<>> THEN "ValueError"
    ELSE IF ~(\/ StartsWith(connection_string.chars, MongoPrefix)
              \/ StartsWith(connection_string.chars, MongoSrvPrefix))
         THEN "ValueError"
    ELSE "ok"

\* `connection_string or os.getenv("MONGO_DB_CONNECTION_STRING")`
conn_str(connection_string, envv) ==
    IF connection_string.truthy THEN connection_string ELSE envv

invalid_chars_split ==
    << <<"~">>, <<"\\">>, <<".">>, <<" ">>, <<"\"">>, <<"'">>, <<"$">>, <<"#">>,
       <<"%">>, <<"+">>, <<"(">>, <<")">>, <<"*">> >>

invalid_chars ==
    << <<"~">>, <<"\\">>, <<".">>, <<" ">>, <<"\"">>, <<"'">>, <<"$">>, <<"#">>,
       <<"%">>, <<"+">>, <<"(", ")">>, <<"*">> >>

\* _validate_name: "ok", or the exception raised.
_validate_name(name) ==
    IF name.type # "str" THEN "TypeError"
    ELSE IF Strip(name.chars) = <<>> THEN "ValueError"
    ELSE IF Len(name.chars) > MaxNameLen THEN "ValueError"
    ELSE IF \E k \in 1..Len(invalid_chars) : Contains(invalid_chars[k], name.chars)
         THEN "ValueError"
    ELSE "ok"


\* ------------------------------------------------------------------ state
VARIABLES
    _client,      \* MongoDBManager._client: NoClient or the id of a MongoClient
    session,      \* per MongoClient id: "none" (not constructed), "open", "closed"
    closeCalls,   \* per MongoClient id: number of close() calls made on it
    accessors,    \* the MongoDBManager instances constructed so far
    store,        \* per (database, collection): the _ids of the stored documents
    last,         \* the last call made: its arguments and what it did
    arg_name,     \* the value handed to _validate_name
    name_error    \* "unchecked", or what _validate_name did with arg_name

vars == <<_client, session, closeCalls, accessors, store, last, arg_name, name_error>>

Sessions == 1..MaxSessions
DocIds == 1..MaxDocId

\* ----------------------------------------------------------------- inputs
ValidUri == Str(MongoPrefix \o <<"h">>)
ValidSrvUri == Str(MongoSrvPrefix \o <<"h">>)

\* Values passed as connection_string.
ConnInputs ==
    { PyNone, PyInt(123), Str(<<>>), Str(<<" ", "\t">>),
      Str(<<"h", "t", "t", "p", ":", "/", "/", "h">>),
      Str(<<" ">> \o MongoPrefix \o <<"h">>),
      ValidUri, ValidSrvUri }

\* Values os.getenv("MONGO_DB_CONNECTION_STRING") returns (None when unset).
EnvInputs == { PyNone, Str(<<>>), Str(<<"m", "o", "n", "g", "o", ":", "/", "/">>), ValidUri }

\* What MongoClient(conn_str) and the ping do.
ConnectOutcomes == {"ok", "ctor_PyMongoError", "ping_ConnectionFailure", "ping_PyMongoError"}

DbName == <<"d", "b">>
CollName == <<"c">>
Collections == { <<DbName, CollName>> }

\* Values passed as db_name and collection_name to the constructor.
DbInputs == { Str(DbName), Str(<<"m", "y", " ", "d", "b">>), PyInt(123) }
CollInputs == { Str(CollName), Str(<<" ">>), Str(<<"c", "$">>) }

\* Values passed as data to insert_document.
BoundedSeq(S, n) == UNION { [1..k -> S] : k \in 0..n }
Dict(d) == [shape |-> "dict", docs |-> <<d>>]
List(ds) == [shape |-> "list", docs |-> ds]
Other == [shape |-> "other", docs |-> <<>>]
DataInputs ==
    { Dict(d) : d \in DocIds } \cup { List(ds) : ds \in {<<>>} \cup [1..2 -> DocIds] }
        \cup { Other }

\* ------------------------------------------------------- records of a call
NoRet == [kind |-> "none", ack |-> FALSE, ids |-> <<>>]
RetNone == [kind |-> "None", ack |-> FALSE, ids |-> <<>>]
\* (False, None)
FalseNone == [kind |-> "tuple_None", ack |-> FALSE, ids |-> <<>>]
\* (acknowledged, inserted_id)
AckId(ack, d) == [kind |-> "tuple_id", ack |-> ack, ids |-> <<d>>]
\* (acknowledged, inserted_ids)
AckIds(ack, ds) == [kind |-> "tuple_ids", ack |-> ack, ids |-> ds]

NoLast ==
    [ op |-> "none",
      conn |-> PyNone,          \* initialize_client: connection_string
      env |-> PyNone,           \* initialize_client: the environment's value
      resolved |-> PyNone,      \* initialize_client: conn_str, when computed
      db_name |-> PyNone,       \* __init__: db_name
      collection_name |-> PyNone,
      data |-> Other,           \* insert_document: data
      acc |-> 0,                \* the accessor the operation was called on
      before |-> NoClient,      \* _client when the call started
      handle |-> NoClient,      \* the MongoClient the call was issued on
      connected |-> FALSE,      \* a MongoClient was constructed by the call
      reached |-> FALSE,        \* the request went out to the store
      stored |-> "not_called",  \* insert: "not_called", "inserted", "raised"
      ack |-> FALSE,            \* insert: the acknowledged flag of the store's result
      raised |-> "none",        \* the exception the call ended with
      ret |-> NoRet ]

\* -------------------------------------------------------------- lifecycle
\* `if cls._client is not None`
already_initialized_never(c) == FALSE

already_initialized(c) == c # NoClient

\* `cls._client = None` in the except branch; c is the client just built.
client_after_failed_ping_kept(c) == c

client_after_failed_ping(c) == NoClient

\* `cls._client = None` after close().
client_after_close_kept(c) == c

client_after_close(c) == NoClient

Constructed == { s \in Sessions : session[s] # "none" }
Live == { s \in Sessions : session[s] = "open" }

initialize_client(connection_string, envv, outcome) ==
    LET called == [NoLast EXCEPT !.op = "initialize_client",
                                 !.conn = connection_string,
                                 !.before = _client]
    IN
    IF already_initialized(_client)
    THEN /\ last' = called
         /\ UNCHANGED <<_client, session, closeCalls, accessors, store, arg_name, name_error>>
    ELSE
    LET cs == conn_str(connection_string, envv)
        err == _validate_connection_string(cs)
        s == Cardinality(Constructed) + 1
        resolved == [called EXCEPT !.env = envv, !.resolved = cs]
    IN
    IF err # "ok"
    THEN /\ last' = [resolved EXCEPT !.raised = err]
         /\ UNCHANGED <<_client, session, closeCalls, accessors, store, arg_name, name_error>>
    ELSE IF outcome = "ctor_PyMongoError"
    THEN \* MongoClient(conn_str) raised: nothing was assigned; the handler
         \* sets _client to None and re-raises.
         /\ _client' = NoClient
         /\ last' = [resolved EXCEPT !.raised = "PyMongoError"]
         /\ UNCHANGED <<session, closeCalls, accessors, store, arg_name, name_error>>
    ELSE /\ s \in Sessions
         /\ session' = [session EXCEPT ![s] = "open"]
         /\ IF outcome = "ok"
            THEN /\ _client' = s
                 /\ last' = [resolved EXCEPT !.handle = s, !.connected = TRUE,
                                             !.reached = TRUE]
            ELSE /\ _client' = client_after_failed_ping(s)
                 /\ last' = [resolved EXCEPT !.handle = s, !.connected = TRUE,
                                             !.raised = IF outcome = "ping_ConnectionFailure"
                                                        THEN "ConnectionFailure"
                                                        ELSE "PyMongoError"]
         /\ UNCHANGED <<closeCalls, accessors, store, arg_name, name_error>>

close_client ==
    /\ IF _client # NoClient
       THEN /\ session' = [session EXCEPT ![_client] = "closed"]
            /\ closeCalls' = [closeCalls EXCEPT ![_client] = @ + 1]
            /\ _client' = client_after_close(_client)
       ELSE UNCHANGED <<_client, session, closeCalls>>
    /\ last' = [NoLast EXCEPT !.op = "close_client", !.before = _client, !.handle = _client]
    /\ UNCHANGED <<accessors, store, arg_name, name_error>>

\* ------------------------------------------------------------ constructor
\* MongoDBManager.__init__ up to the binding: "ok", or the exception raised.
init_error_validate_first(c, db_name, collection_name) ==
    IF _validate_name(db_name) # "ok" THEN _validate_name(db_name)
    ELSE IF _validate_name(collection_name) # "ok" THEN _validate_name(collection_name)
    ELSE IF c = NoClient THEN "RuntimeError"
    ELSE "ok"

init_error(c, db_name, collection_name) ==
    IF c = NoClient THEN "RuntimeError"
    ELSE IF _validate_name(db_name) # "ok" THEN _validate_name(db_name)
    ELSE IF _validate_name(collection_name) # "ok" THEN _validate_name(collection_name)
    ELSE "ok"

__init__(db_name, collection_name) ==
    LET err == init_error(_client, db_name, collection_name)
        called == [NoLast EXCEPT !.op = "__init__", !.db_name = db_name,
                                 !.collection_name = collection_name, !.before = _client]
    IN
    /\ IF err # "ok"
       THEN /\ last' = [called EXCEPT !.raised = err]
            /\ UNCHANGED accessors
       ELSE /\ Len(accessors) < MaxAccessors
            /\ accessors' = Append(accessors,
                   [db_name |-> db_name.chars, collection_name |-> collection_name.chars,
                    client |-> _client])
            /\ last' = [called EXCEPT !.acc = Len(accessors) + 1, !.handle = _client]
    /\ UNCHANGED <<_client, session, closeCalls, store, arg_name, name_error>>


\* ------------------------------------------------------------- the driver
\* A call on a MongoClient that was closed: the driver either reconnects it
\* (pymongo 3) or raises InvalidOperation (pymongo 4); the source pins no
\* version.  usable: the call goes out on handle h.
Usable(h, reopens) == session[h] = "open" \/ reopens

SessionAfterUse(h, reopens) ==
    IF session[h] = "closed" /\ reopens THEN [session EXCEPT ![h] = "open"] ELSE session

Key(a) == <<accessors[a].db_name, accessors[a].collection_name>>

\* An ordered insert stores the documents in order up to the first one whose
\* _id is already in the collection (DuplicateKeyError / BulkWriteError).
RECURSIVE InsertedPrefix(_, _)
InsertedPrefix(docs, existing) ==
    IF docs = <<>> \/ Head(docs) \in existing THEN 0
    ELSE 1 + InsertedPrefix(Tail(docs), existing \cup {Head(docs)})

Range(f) == { f[i] : i \in DOMAIN f }

\* ------------------------------------------------------------------- CRUD
\* reopens, server_ok, ack: what the driver and the server do with the call;
\* out_ok: the print calls of the summary (or of the else branch) succeed;
\* err_out_ok: the print call of the except handler succeeds.
\* insert_one / insert_many went out on the accessor's handle.  insert_many([])
\* raises TypeError before anything is sent.
Sent(a, data, reopens) ==
    /\ data.shape \in {"dict", "list"}
    /\ data.docs # <<>>
    /\ Usable(accessors[a].client, reopens)

\* The number of documents of data the store took.
Taken(a, data, reopens, server_ok) ==
    IF Sent(a, data, reopens) /\ server_ok
    THEN InsertedPrefix(data.docs, store[Key(a)])
    ELSE 0

\* insert_one / insert_many returned a result instead of raising.
Inserted(a, data, reopens, server_ok) ==
    /\ Sent(a, data, reopens)
    /\ server_ok
    /\ Taken(a, data, reopens, server_ok) = Len(data.docs)

insert_document(a, data, reopens, server_ok, ack, out_ok, err_out_ok) ==
    LET h == accessors[a].client
        called == [NoLast EXCEPT !.op = "insert_document", !.acc = a, !.data = data,
                                 !.before = _client]
        n == Taken(a, data, reopens, server_ok)
        inserted == Inserted(a, data, reopens, server_ok)
        \* the try body ran to its return statement
        returned == IF data.shape = "other" THEN out_ok ELSE inserted /\ out_ok
        forwarded == [called EXCEPT
                         !.handle = IF data.shape = "other" THEN NoClient ELSE h,
                         !.reached = Sent(a, data, reopens),
                         !.stored = IF data.shape = "other" THEN "not_called"
                                    ELSE IF inserted THEN "inserted" ELSE "raised",
                         !.ack = inserted /\ ack]
    IN
    /\ session' = IF data.shape = "other" THEN session ELSE SessionAfterUse(h, reopens)
    /\ store' = [store EXCEPT ![Key(a)] = @ \cup Range(SubSeq(data.docs, 1, n))]
    /\ last' =
         IF returned
         THEN [forwarded EXCEPT
                  !.ret = IF data.shape = "dict" THEN AckId(ack, data.docs[1])
                          ELSE IF data.shape = "list" THEN AckIds(ack, data.docs)
                          ELSE FalseNone]
         ELSE IF err_out_ok
         THEN [forwarded EXCEPT !.ret = FalseNone]
         ELSE [forwarded EXCEPT !.raised = "OSError"]
    /\ UNCHANGED <<_client, closeCalls, accessors, arg_name, name_error>>

\* find_one, update_one and delete_one hand the call to the collection and
\* return or raise whatever it does.
Forwarded(opname, a, reopens, server_ok, result) ==
    LET h == accessors[a].client
        called == [NoLast EXCEPT !.op = opname, !.acc = a, !.before = _client,
                                 !.handle = h, !.reached = Usable(h, reopens)]
    IN
    /\ session' = SessionAfterUse(h, reopens)
    /\ last' = IF ~Usable(h, reopens) THEN [called EXCEPT !.raised = "InvalidOperation"]
               ELSE IF ~server_ok THEN [called EXCEPT !.raised = "PyMongoError"]
               ELSE [called EXCEPT !.ret = result]

find_one(a, filter_dict, reopens, server_ok) ==
    /\ Forwarded("find_one", a, reopens, server_ok,
                 IF filter_dict \in store[Key(a)]
                 THEN [kind |-> "document", ack |-> FALSE, ids |-> <<filter_dict>>]
                 ELSE RetNone)
    /\ UNCHANGED <<_client, closeCalls, accessors, store, arg_name, name_error>>

\* find() builds a cursor on the collection; nothing is sent until it is
\* iterated.
find_many(a) ==
    /\ last' = [NoLast EXCEPT !.op = "find_many", !.acc = a, !.before = _client,
                              !.handle = accessors[a].client,
                              !.ret = [kind |-> "cursor", ack |-> FALSE, ids |-> <<>>]]
    /\ UNCHANGED <<_client, session, closeCalls, accessors, store, arg_name, name_error>>

update_one(a, filter_dict, reopens, server_ok) ==
    /\ Forwarded("update_one", a, reopens, server_ok,
                 [kind |-> "UpdateResult", ack |-> TRUE,
                  ids |-> IF filter_dict \in store[Key(a)] THEN <<filter_dict>> ELSE <<>>])
    /\ UNCHANGED <<_client, closeCalls, accessors, store, arg_name, name_error>>

delete_one(a, filter_dict, reopens, server_ok) ==
    /\ Forwarded("delete_one", a, reopens, server_ok,
                 [kind |-> "DeleteResult", ack |-> TRUE,
                  ids |-> IF filter_dict \in store[Key(a)] THEN <<filter_dict>> ELSE <<>>])
    /\ store' = IF Usable(accessors[a].client, reopens) /\ server_ok
                THEN [store EXCEPT ![Key(a)] = @ \ {filter_dict}]
                ELSE store
    /\ UNCHANGED <<_client, closeCalls, accessors, arg_name, name_error>>

\* ---------------------------------------------------------- specification
Init ==
    /\ _client = NoClient
    /\ session = [s \in Sessions |-> "none"]
    /\ closeCalls = [s \in Sessions |-> 0]
    /\ accessors = <<>>
    /\ store = [k \in Collections |-> {}]
    /\ last = NoLast
    /\ arg_name = PyNone
    /\ name_error = "unchecked"

\* The choices the environment has in a call: only those the call reads.
EnvChoices(c) == IF c.truthy THEN {PyNone} ELSE EnvInputs

ConnectChoices(c, e) ==
    IF _validate_connection_string(conn_str(c, e)) = "ok" /\ ~already_initialized(_client)
    THEN ConnectOutcomes
    ELSE {"ok"}

ReopenChoices(a) == IF session[accessors[a].client] = "closed" THEN BOOLEAN ELSE {FALSE}

If(cond) == IF cond THEN BOOLEAN ELSE {TRUE}

Next ==
    \/ \E c \in ConnInputs : \E e \in EnvChoices(c) : \E o \in ConnectChoices(c, e) :
          initialize_client(c, e, o)
    \/ close_client
    \/ \E d \in DbInputs, c \in CollInputs : __init__(d, c)
    \/ \E a \in DOMAIN accessors, data \in DataInputs :
          \E r \in ReopenChoices(a) :
          \E ok \in If(Sent(a, data, r)) :
          \E ack \in If(Inserted(a, data, r, ok)) :
          \E out \in If(data.shape = "other" \/ Inserted(a, data, r, ok)) :
          \E eout \in If(~out \/ (data.shape # "other" /\ ~Inserted(a, data, r, ok))) :
             insert_document(a, data, r, ok, ack, out, eout)
    \/ \E a \in DOMAIN accessors, f \in DocIds :
          \E r \in ReopenChoices(a) : \E ok \in If(Usable(accessors[a].client, r)) :
             find_one(a, f, r, ok)
    \/ \E a \in DOMAIN accessors : find_many(a)
    \/ \E a \in DOMAIN accessors, f \in DocIds :
          \E r \in ReopenChoices(a) : \E ok \in If(Usable(accessors[a].client, r)) :
             update_one(a, f, r, ok)
    \/ \E a \in DOMAIN accessors, f \in DocIds :
          \E r \in ReopenChoices(a) : \E ok \in If(Usable(accessors[a].client, r)) :
             delete_one(a, f, r, ok)

Spec == Init /\ [][Next]_vars

\* ------------------------------------------- specification of _validate_name
\* The names handed to _validate_name: a freely chosen part of up to MaxBody
\* characters, followed by a run of 'a' that brings the length around the
\* limit of 64.
NameAlphabet ==
    {"a", "\t", "(", ")", "~", "\\", ".", " ", "\"", "'", "$", "#", "%", "+", "*"}

Pads == {0, MaxNameLen - 2, MaxNameLen - 1, MaxNameLen, MaxNameLen + 1}

NameInputs ==
    { Str(b \o Repeat("a", p)) : b \in BoundedSeq(NameAlphabet, MaxBody), p \in Pads }
        \cup { PyNone, PyInt(123) }

NameInit ==
    /\ _client = NoClient
    /\ session = [s \in Sessions |-> "none"]
    /\ closeCalls = [s \in Sessions |-> 0]
    /\ accessors = <<>>
    /\ store = [k \in Collections |-> {}]
    /\ last = NoLast
    /\ arg_name \in NameInputs
    /\ name_error = "unchecked"

validate_name_call ==
    /\ name_error = "unchecked"
    /\ name_error' = _validate_name(arg_name)
    /\ UNCHANGED <<_client, session, closeCalls, accessors, store, last, arg_name>>

NameNext == validate_name_call

SpecName == NameInit /\ [][NameNext]_vars


\* ================================================================== claims
CrudOps == {"insert_document", "find_one", "find_many", "update_one", "delete_one"}
ArgumentErrors == {"TypeError", "ValueError"}
ConnectionErrors == {"ConnectionFailure", "PyMongoError"}

\* C1: at most one MongoClient that was opened and not released by close()
\* exists at any time, also after an initialize_client whose ping failed.
C1_AtMostOneLiveSession == Cardinality(Live) <= 1

\* C2: every CRUD call an accessor hands to the driver goes out on the handle
\* the class holds at that moment, and that handle was never closed.
C2_OperationsOnCurrentHandle ==
    (last.op \in CrudOps /\ last.handle # NoClient)
        => (last.handle = _client /\ closeCalls[last.handle] = 0)

\* C3: with a handle present, initialize_client raises nothing for any
\* argument, constructs no MongoClient and leaves the handle and every
\* session as they were.
C3_InitializeIsNoOpWhenInitialized ==
    [][ (_client # NoClient /\ last'.op = "initialize_client")
          => /\ last'.raised = "none"
             /\ ~last'.connected
             /\ _client' = _client
             /\ session' = session
             /\ closeCalls' = closeCalls ]_vars

C3_Witness ==
    /\ last.op = "initialize_client"
    /\ last.before # NoClient
    /\ last.conn.type = "str"
    /\ ~StartsWith(last.conn.chars, MongoPrefix)
    /\ ~StartsWith(last.conn.chars, MongoSrvPrefix)

\* C4: an initialize_client that raises leaves no handle set; one whose ping
\* failed raised a connection error; and an initialize_client that follows a
\* failed one and does not raise has built a new client and holds it.
C4_FailedInitialize ==
    /\ [](last.op = "initialize_client" /\ last.raised # "none" => _client = NoClient)
    /\ [](last.op = "initialize_client" /\ last.connected /\ ~last.reached
            => last.raised \in ConnectionErrors)
    /\ [][ ( /\ last.op = "initialize_client"
             /\ last.raised \in ConnectionErrors
             /\ last'.op = "initialize_client"
             /\ last'.raised = "none" )
           => /\ last'.connected
              /\ _client' = last'.handle
              /\ _client' # NoClient
              /\ session'[_client'] = "open" ]_vars

\* A handle established while the client of an earlier, failed ping is around.
C4_Witness ==
    /\ last.op = "initialize_client"
    /\ last.raised = "none"
    /\ last.connected
    /\ _client = last.handle
    /\ \E s \in Sessions : s # _client /\ session[s] = "open" /\ closeCalls[s] = 0

\* What the validators are said to reject, stated on the characters.
AllWhitespace(chars) == \A i \in 1..Len(chars) : chars[i] \in Whitespace

HasPrefix(chars, p) == Len(chars) >= Len(p) /\ \A i \in 1..Len(p) : chars[i] = p[i]

BadConnectionString(v) ==
    \/ v.type # "str"
    \/ AllWhitespace(v.chars)
    \/ ~(HasPrefix(v.chars, MongoPrefix) \/ HasPrefix(v.chars, MongoSrvPrefix))

\* C5 as stated: with no handle, if the explicit argument when one is given,
\* or else the environment's value, is not a string, is blank or has neither
\* prefix, initialize_client raises an argument error, connects to nothing and
\* leaves the handle absent.
C5_AsStated ==
    LET given == last.conn.type # "NoneType"
        resolved == IF given THEN last.conn ELSE last.env
    IN  (last.op = "initialize_client" /\ last.before = NoClient /\ BadConnectionString(resolved))
            => /\ last.raised \in ArgumentErrors
               /\ ~last.connected
               /\ _client = NoClient

\* C5 amended: the same, with the argument used when it is truthy (a non-empty
\* string or another truthy value) and the environment's value otherwise.
C5_InvalidConnectionString ==
    LET resolved == IF last.conn.truthy THEN last.conn ELSE last.env
    IN  (last.op = "initialize_client" /\ last.before = NoClient /\ BadConnectionString(resolved))
            => /\ last.raised \in ArgumentErrors
               /\ ~last.connected
               /\ _client = NoClient

\* An empty argument, and an environment value with the wrong prefix.
C5_Witness ==
    /\ last.op = "initialize_client"
    /\ last.before = NoClient
    /\ last.conn = Str(<<>>)
    /\ last.env.type = "str"
    /\ last.env.chars # <<>>
    /\ last.raised = "ValueError"

\* C6: constructing an accessor while the class holds no handle raises
\* RuntimeError for every pair of names and adds no accessor.
C6_ConstructorNeedsHandle ==
    [][ (_client = NoClient /\ last'.op = "__init__")
          => /\ last'.raised = "RuntimeError"
             /\ last'.acc = 0
             /\ accessors' = accessors ]_vars

\* After a close, and with a database name that is no string.
C6_Witness ==
    /\ last.op = "__init__"
    /\ last.before = NoClient
    /\ last.db_name.type # "str"
    /\ last.raised = "RuntimeError"
    /\ \E s \in Sessions : session[s] = "closed"

\* C7: close_client raises nothing and leaves the handle absent; with a
\* handle it closes that client, once; without one it closes nothing.
C7_CloseIdempotent ==
    [][ last'.op = "close_client"
          => /\ last'.raised = "none"
             /\ _client' = NoClient
             /\ IF _client # NoClient
                THEN /\ session' = [session EXCEPT ![_client] = "closed"]
                     /\ closeCalls' = [closeCalls EXCEPT ![_client] = 1]
                ELSE /\ session' = session
                     /\ closeCalls' = closeCalls ]_vars

\* A close with nothing to close, after a client was closed.
C7_Witness ==
    /\ last.op = "close_client"
    /\ last.before = NoClient
    /\ _client = NoClient
    /\ \E s \in Sessions : closeCalls[s] = 1

\* The single characters no name may contain.
ReservedCharacters == {"~", "\\", ".", " ", "\"", "'", "$", "#", "%", "+", "*"}

C8_Rejected(v) ==
    \/ v.type # "str"
    \/ AllWhitespace(v.chars)
    \/ Len(v.chars) > 64
    \/ \E i \in 1..Len(v.chars) : v.chars[i] \in ReservedCharacters
    \/ \E i \in 1..(Len(v.chars) - 1) : v.chars[i] = "(" /\ v.chars[i + 1] = ")"

\* C8: _validate_name fails exactly for a value that is no string, is empty
\* or all whitespace, is longer than 64 characters, or contains one of
\* ~ \ . space " ' $ # % + * or the sequence "()"; a lone parenthesis passes.
C8_ValidateName ==
    name_error # "unchecked"
        => /\ (name_error # "ok") <=> C8_Rejected(arg_name)
           /\ name_error \in {"ok", "TypeError", "ValueError"}

\* A name of 64 characters with a closing and an opening parenthesis passes.
C8_Witness ==
    /\ name_error = "ok"
    /\ Len(arg_name.chars) = 64
    /\ arg_name.chars[1] = ")"
    /\ arg_name.chars[2] = "("

\* C9: insert_document never raises; a document the store inserted gives
\* (acknowledged, inserted_id), a list the store inserted gives
\* (acknowledged, inserted_ids), any other shape gives (False, None) without
\* a call to the store, and a failure raised by the store gives (False, None).
C9_InsertResult ==
    last.op = "insert_document"
        => /\ last.raised = "none"
           /\ (last.data.shape = "dict" /\ last.stored = "inserted")
                 => last.ret = AckId(last.ack, last.data.docs[1])
           /\ (last.data.shape = "list" /\ last.stored = "inserted")
                 => last.ret = AckIds(last.ack, last.data.docs)
           /\ last.data.shape = "other"
                 => (last.ret = FalseNone /\ ~last.reached /\ last.stored = "not_called")
           /\ last.stored = "raised" => last.ret = FalseNone

\* C10: an insert_document that returns (False, None) has stored nothing.
C10_FailedInsertStoresNothing ==
    [][ (last'.op = "insert_document" /\ last'.ret = FalseNone) => store' = store ]_vars

====
